---- MODULE Spec2Model ----
(***************************************************************************)
(* Model of the dts command-line lookup tool (src/src/index.ts).           *)
(*                                                                         *)
(* The program configures a Bloodhound suggestion engine with four         *)
(* callbacks (datumTokenizer, queryTokenizer, identify, sorter), runs one  *)
(* search through it and prints the projected result.  The callbacks, the  *)
(* closure variable `query` they share, searchForTypes and main are        *)
(* translated from the source.  The engine itself (bloodhound-js) and the  *)
(* host's Array.prototype.sort are not in the repository; the engine's     *)
(* index lookup is modelled as the exact-token membership the              *)
(* specification describes, and the sort as an insertion sort whose        *)
(* comparator calls may receive their two elements in either order.        *)
(*                                                                         *)
(* Steps are taken at the granularity of one callback invocation, which    *)
(* includes every schedule a run-to-completion host can produce.           *)
(***************************************************************************)
EXTENDS Integers, Sequences, FiniteSets, TLC

(***************************************************************************)
(* Bounds                                                                  *)
(***************************************************************************)
\* largest number of records the prefetched index holds
MaxRecords == 4

(***************************************************************************)
(* Values                                                                  *)
(***************************************************************************)
\* the JavaScript value `undefined` (a missing argv entry)
Undefined == "<undefined>"

\* no comparator call made yet
NoCall == [q |-> "", x |-> "", y |-> "", r |-> 0, made |-> FALSE]

Searches == {1, 2}

Range(f) == {f[k] : k \in DOMAIN f}

\* String(v) as `+` applies it to a non-string operand
ToStr(v) == IF v = Undefined THEN "undefined" ELSE v

\* MinifiedSearchRecord
Rec(t, g, m, p, l, d) == [t |-> t, g |-> g, m |-> m, p |-> p, l |-> l, d |-> d]

\* records the prefetched search index may hold; typesPackageName is unique
Catalogue ==
  { Rec("react", <<"React">>, <<"react">>, "https://reactjs.org", "React", 100),
    Rec("react-js", <<"React">>, <<"react">>, "https://github.com/react-js", "react", 100000),
    Rec("react-redux", <<"ReactRedux", "React">>, <<"react-redux", "react", "redux">>,
        "https://react-redux.js.org", "React Redux", 50),
    Rec("redux", <<"Redux">>, <<"redux">>, "https://github.com/reduxjs", "Redux", 900),
    Rec("redux.js", <<>>, <<"redux">>, "https://redux.js.org", "redux", 1),
    Rec("preact", <<"preact">>, <<"preact", "react">>, "https://preactjs.com", "Preact", 50) }

\* search terms a caller may pass
Terms == {"react", "redux", "React", "rea", "https://redux.js.org"}

\* process.argv.slice(2)
ArgvChoices == {<<>>} \cup {<<t>> : t \in Terms}

(***************************************************************************)
(* The engine's callbacks (createEngine)                                   *)
(***************************************************************************)
\* datumTokenizer with the projectUrl entry left out of the token list
datumTokenizerNoUrl(entry) == <<entry.l, entry.t>> \o entry.g \o entry.m

datumTokenizer(entry) == <<entry.l, entry.p, entry.t>> \o entry.g \o entry.m

\* the value queryTokenizer returns; its assignment to `query` is in Tokenize
queryTokenizer(input) == <<input>>

identify(e) == e.t

\* the name test written `x.t === query || query + "js" || ...`: the bare
\* string operands are truthy, so the test succeeds on every name
IsExactTruthy(query, name) ==
  \/ name = query
  \/ ToStr(query) \o "js" # ""

\* the test on one record's name in sorter
IsExact(query, name) ==
  \/ name = query
  \/ name = ToStr(query) \o "js"
  \/ name = ToStr(query) \o ".js"
  \/ name = ToStr(query) \o "-js"

\* sorter without its test on y: a non-exact x is ranked by downloads alone
sorterNoSecondTest(query, x, y) ==
  IF IsExact(query, x.t) THEN -1
  ELSE y.d - x.d

sorter(query, x, y) ==
  IF IsExact(query, x.t) THEN -1
  ELSE IF IsExact(query, y.t) THEN 1
  ELSE y.d - x.d

\* `query` declared at module level: one cell shared by every engine
QueryCellShared(s) == 1

\* the closure cell `query` of the engine that search s created
QueryCell(s) == s

(***************************************************************************)
(* The engine's index                                                      *)
(***************************************************************************)
AllTokens(records) == UNION {Range(datumTokenizer(r)) : r \in records}

\* token -> ids of the records whose datum tokens contain it
BuildIndex(records) ==
  [tok \in AllTokens(records) |->
     {identify(r) : r \in {e \in records : tok \in Range(datumTokenizer(e))}}]

\* ids of the records that contain every query token
Lookup(idx, tokens) ==
  {id \in UNION Range(idx) :
     \A k \in DOMAIN tokens : tokens[k] \in DOMAIN idx /\ id \in idx[tokens[k]]}

\* every order in which the index may hand a set of records to the sorter
Orderings(S) ==
  {f \in [1..Cardinality(S) -> S] : \A a, b \in DOMAIN f : a # b => f[a] # f[b]}

(***************************************************************************)
(* searchForTypes' projection                                              *)
(***************************************************************************)
\* the projection with the package name taken from libraryName
ProjectLibraryName(x) == [packageName |-> "@types/" \o x.l, url |-> x.p]

Project(x) == [packageName |-> "@types/" \o x.t, url |-> x.p]

MapProject(d) == [k \in DOMAIN d |-> Project(d[k])]

Falsy(v) == v = Undefined \/ v = ""

VARIABLES
  store,      \* the records of the prefetched search index
  argv,       \* process.argv.slice(2)
  mainpc,     \* main: "start", "awaiting", "done", "failed", or "off"
  warned,     \* console.warn('No search term found!') was called
  printed,    \* the lines main logged
  pc,         \* per search: "idle", "initializing", "ready", "sorting", "settled"
  term,       \* per search: searchTerm
  query,      \* per engine: the closure variable `query`
  index,      \* per engine: the search index built by initialize
  arr,        \* per search: the matched records being sorted
  i,          \* per search: insertion sort, next element to insert
  j,          \* per search: insertion sort, position of the element moving left
  lastCmp,    \* per search: the last sorter call made for it
  promise,    \* per search: "none", "pending", "resolved", "rejected"
  result      \* per search: the value the promise resolved with

vars == <<store, argv, mainpc, warned, printed, pc, term, query, index, arr, i, j,
          lastCmp, promise, result>>

mainVars == <<argv, mainpc, warned, printed>>

Stores == {S \in SUBSET Catalogue : Cardinality(S) <= MaxRecords}

InitSearches ==
  /\ pc = [s \in Searches |-> "idle"]
  /\ term = [s \in Searches |-> ""]
  /\ query = [s \in Searches |-> ""]
  /\ index = [s \in Searches |-> <<>>]
  /\ arr = [s \in Searches |-> <<>>]
  /\ i = [s \in Searches |-> 2]
  /\ j = [s \in Searches |-> 2]
  /\ lastCmp = [s \in Searches |-> NoCall]
  /\ promise = [s \in Searches |-> "none"]
  /\ result = [s \in Searches |-> <<>>]

Init ==
  /\ store \in Stores
  /\ argv \in ArgvChoices
  /\ mainpc = "start"
  /\ warned = FALSE
  /\ printed = <<>>
  /\ InitSearches

\* several callers in one runtime, main not involved
InitConc ==
  /\ store \in Stores
  /\ argv = <<>>
  /\ mainpc = "off"
  /\ warned = FALSE
  /\ printed = <<>>
  /\ InitSearches

\* searchForTypes up to its await: createEngine() and engine.initialize()
StartSearch(s, searchTerm) ==
  /\ pc[s] = "idle"
  /\ pc' = [pc EXCEPT ![s] = "initializing"]
  /\ term' = [term EXCEPT ![s] = searchTerm]
  /\ query' = [query EXCEPT ![QueryCell(s)] = ""]
  /\ promise' = [promise EXCEPT ![s] = "pending"]
  /\ UNCHANGED <<store, index, arr, i, j, lastCmp, result>>

\* main up to its await
Main ==
  /\ mainpc = "start"
  /\ LET searchTerm == IF Len(argv) > 0 THEN argv[1] ELSE Undefined
     IN /\ warned' = Falsy(searchTerm)
        /\ StartSearch(1, searchTerm)
  /\ mainpc' = "awaiting"
  /\ UNCHANGED <<argv, printed>>

\* another caller invokes searchForTypes
Call(s) ==
  /\ mainpc = "off"
  /\ \E t \in Terms \cup {Undefined} : StartSearch(s, t)
  /\ UNCHANGED mainVars

\* the prefetch completes: every datum is tokenized into the index
InitializeOk(s) ==
  /\ pc[s] = "initializing"
  /\ index' = [index EXCEPT ![s] = BuildIndex(store)]
  /\ pc' = [pc EXCEPT ![s] = "ready"]
  /\ UNCHANGED <<store, term, query, arr, i, j, lastCmp, promise, result>>
  /\ UNCHANGED mainVars

\* the prefetch fails: the await throws and the catch rejects
InitializeFail(s) ==
  /\ pc[s] = "initializing"
  /\ promise' = [promise EXCEPT ![s] = "rejected"]
  /\ pc' = [pc EXCEPT ![s] = "settled"]
  /\ UNCHANGED <<store, term, query, index, arr, i, j, lastCmp, result>>
  /\ UNCHANGED mainVars

\* engine.search begins: queryTokenizer runs and the index is read
Tokenize(s) ==
  /\ pc[s] = "ready"
  /\ term[s] # Undefined
  /\ query' = [query EXCEPT ![QueryCell(s)] = term[s]]
  /\ LET ids == Lookup(index[s], queryTokenizer(term[s]))
         matched == {r \in store : identify(r) \in ids}
     IN \E order \in Orderings(matched) : arr' = [arr EXCEPT ![s] = order]
  /\ i' = [i EXCEPT ![s] = 2]
  /\ j' = [j EXCEPT ![s] = 2]
  /\ pc' = [pc EXCEPT ![s] = "sorting"]
  /\ UNCHANGED <<store, term, index, lastCmp, promise, result>>
  /\ UNCHANGED mainVars

\* engine.search(undefined, ...): queryTokenizer runs; the engine finds nothing
TokenizeUndefined(s) ==
  /\ pc[s] = "ready"
  /\ term[s] = Undefined
  /\ query' = [query EXCEPT ![QueryCell(s)] = term[s]]
  /\ arr' = [arr EXCEPT ![s] = <<>>]
  /\ i' = [i EXCEPT ![s] = 2]
  /\ j' = [j EXCEPT ![s] = 2]
  /\ pc' = [pc EXCEPT ![s] = "sorting"]
  /\ UNCHANGED <<store, term, index, lastCmp, promise, result>>
  /\ UNCHANGED mainVars

\* engine.search(undefined, ...) throws on the missing term: the catch rejects
SearchThrows(s) ==
  /\ pc[s] = "ready"
  /\ term[s] = Undefined
  /\ query' = [query EXCEPT ![QueryCell(s)] = term[s]]
  /\ promise' = [promise EXCEPT ![s] = "rejected"]
  /\ pc' = [pc EXCEPT ![s] = "settled"]
  /\ UNCHANGED <<store, term, index, arr, i, j, lastCmp, result>>
  /\ UNCHANGED mainVars

Swap(a, k) == [a EXCEPT ![k - 1] = a[k], ![k] = a[k - 1]]

\* one sorter call of the sort, on the neighbours at j-1 and j
Compare(s) ==
  /\ pc[s] = "sorting"
  /\ i[s] <= Len(arr[s])
  /\ \E leftFirst \in BOOLEAN :
       LET left == arr[s][j[s] - 1]
           right == arr[s][j[s]]
           x == IF leftFirst THEN left ELSE right
           y == IF leftFirst THEN right ELSE left
           q == query[QueryCell(s)]
           r == sorter(q, x, y)
           outOfOrder == IF leftFirst THEN r > 0 ELSE r < 0
       IN /\ lastCmp' = [lastCmp EXCEPT ![s] =
                           [q |-> q, x |-> x.t, y |-> y.t, r |-> r, made |-> TRUE]]
          /\ IF outOfOrder
             THEN /\ arr' = [arr EXCEPT ![s] = Swap(arr[s], j[s])]
                  /\ IF j[s] > 2
                     THEN /\ j' = [j EXCEPT ![s] = j[s] - 1]
                          /\ i' = i
                     ELSE /\ i' = [i EXCEPT ![s] = i[s] + 1]
                          /\ j' = [j EXCEPT ![s] = i[s] + 1]
             ELSE /\ arr' = arr
                  /\ i' = [i EXCEPT ![s] = i[s] + 1]
                  /\ j' = [j EXCEPT ![s] = i[s] + 1]
  /\ UNCHANGED <<store, pc, term, query, index, promise, result>>
  /\ UNCHANGED mainVars

\* the sync callback: d.map(...) and resolve(data)
Deliver(s) ==
  /\ pc[s] = "sorting"
  /\ i[s] > Len(arr[s])
  /\ result' = [result EXCEPT ![s] = MapProject(arr[s])]
  /\ promise' = [promise EXCEPT ![s] = IF promise[s] = "pending" THEN "resolved" ELSE promise[s]]
  /\ pc' = [pc EXCEPT ![s] = "settled"]
  /\ UNCHANGED <<store, term, query, index, arr, i, j, lastCmp>>
  /\ UNCHANGED mainVars

\* main resumes with the data and logs each entry
MainPrint ==
  /\ mainpc = "awaiting"
  /\ promise[1] = "resolved"
  /\ printed' = result[1]
  /\ mainpc' = "done"
  /\ UNCHANGED <<store, argv, warned, pc, term, query, index, arr, i, j, lastCmp,
                 promise, result>>

\* main's await throws: main's own promise rejects
MainFail ==
  /\ mainpc = "awaiting"
  /\ promise[1] = "rejected"
  /\ mainpc' = "failed"
  /\ UNCHANGED <<store, argv, warned, printed, pc, term, query, index, arr, i, j,
                 lastCmp, promise, result>>

SearchStep(s) ==
  \/ InitializeOk(s)
  \/ InitializeFail(s)
  \/ Tokenize(s)
  \/ TokenizeUndefined(s)
  \/ SearchThrows(s)
  \/ Compare(s)
  \/ Deliver(s)

Next ==
  \/ Main
  \/ SearchStep(1)
  \/ MainPrint
  \/ MainFail

Spec == Init /\ [][Next]_vars

NextConc ==
  \/ \E s \in Searches : Call(s)
  \/ \E s \in Searches : SearchStep(s)

SpecConc == InitConc /\ [][NextConc]_vars

(***************************************************************************)
(* Vocabulary of the properties                                            *)
(***************************************************************************)
\* the four strings the specification calls the exact forms of a query term
ExactForms(q) == {q, q \o "js", q \o ".js", q \o "-js"}

\* the value of `query` the sorter of search s reads
Q(s) == query[QueryCell(s)]

\* the records the engine matched for search s
Matched(s) == Range(arr[s])

\* search s has tokenized its term and holds its matches
Ranking(s) == pc[s] = "sorting" \/ (pc[s] = "settled" /\ promise[s] = "resolved")

\* the sort of search s has made its last comparison
Sorted(s) == Ranking(s) /\ i[s] > Len(arr[s])

Exact(s, r) == r.t \in ExactForms(term[s])

\* the index of search s has been built
Indexed(s) == pc[s] \in {"ready", "sorting"} \/ (pc[s] = "settled" /\ index[s] # <<>>)

\* the tokens under which the index of search s lists record r
TokensOf(s, r) == {tok \in DOMAIN index[s] : identify(r) \in index[s][tok]}

(***************************************************************************)
(* C1                                                                      *)
(***************************************************************************)
\* C1: a matched record whose name is an exact form of the term is ordered
\* strictly before a matched record whose name is not, by the comparator in
\* both argument orders and by the finished sort, whatever their downloads.
C1_ExactBeforeNonExact ==
  \A s \in Searches : Ranking(s) =>
    /\ \A x, y \in Matched(s) :
         (Exact(s, x) /\ ~Exact(s, y)) =>
           (sorter(Q(s), x, y) < 0 /\ sorter(Q(s), y, x) > 0)
    /\ Sorted(s) =>
         \A a, b \in DOMAIN arr[s] :
           (Exact(s, arr[s][a]) /\ ~Exact(s, arr[s][b])) => a < b

\* the suffix form redux.js (1 download) was compared and ranked ahead of
\* react-redux (50 downloads) for the term "redux"
C1_Witness ==
  /\ Sorted(1) /\ lastCmp[1].made
  /\ term[1] = "redux"
  /\ Len(arr[1]) = 2
  /\ arr[1][1].t = "redux.js" /\ arr[1][1].d = 1
  /\ arr[1][2].t = "react-redux" /\ arr[1][2].d > 1

(***************************************************************************)
(* C2                                                                      *)
(***************************************************************************)
\* C2: two matched records that are both exact forms or both not are ordered
\* by monthlyDownloads descending: the one with strictly more downloads comes
\* first, for the comparator in both argument orders and in the finished sort.
C2_SameClassByDownloads ==
  \A s \in Searches : Ranking(s) =>
    /\ \A x, y \in Matched(s) :
         (Exact(s, x) = Exact(s, y) /\ x.d > y.d) =>
           (sorter(Q(s), x, y) < 0 /\ sorter(Q(s), y, x) > 0)
    /\ Sorted(s) =>
         \A a, b \in DOMAIN arr[s] :
           (Exact(s, arr[s][a]) = Exact(s, arr[s][b]) /\ arr[s][a].d > arr[s][b].d)
             => a < b

(***************************************************************************)
(* C3                                                                      *)
(***************************************************************************)
\* C3: when the matches hold a record named exactly q and a record named
\* q-js with more downloads, the finished sort places the record named q
\* first, whichever of the two the sort passed to the comparator first.
C3_PlainNameBeforeDashJs ==
  \A s \in Searches : Sorted(s) =>
    \A a, b \in DOMAIN arr[s] :
      (/\ arr[s][a].t = term[s]
       /\ arr[s][b].t = term[s] \o "-js"
       /\ arr[s][b].d > arr[s][a].d) => a < b

(***************************************************************************)
(* C4                                                                      *)
(***************************************************************************)
\* C4: for a fixed term the comparator is antisymmetric and transitive over
\* the matched records (distinct names): a total order.
C4_TotalOrder ==
  \A s \in Searches : Ranking(s) =>
    /\ \A x, y \in Matched(s) : x.t # y.t =>
         /\ sorter(Q(s), x, y) < 0 => sorter(Q(s), y, x) > 0
         /\ sorter(Q(s), x, y) = 0 => sorter(Q(s), y, x) = 0
    /\ \A x, y, z \in Matched(s) :
         (x.t # y.t /\ y.t # z.t /\ x.t # z.t
          /\ sorter(Q(s), x, y) < 0 /\ sorter(Q(s), y, z) < 0)
           => sorter(Q(s), x, z) < 0

(***************************************************************************)
(* C5                                                                      *)
(***************************************************************************)
\* C5 (as stated): with pairwise distinct names, at most one matched record
\* is an exact form of the term, so the comparator never gets two of them.
C5_AtMostOneExact ==
  \A s \in Searches : Ranking(s) =>
    /\ Cardinality({r \in Matched(s) : Exact(s, r)}) <= 1
    /\ lastCmp[s].made =>
         ~(lastCmp[s].x \in ExactForms(term[s]) /\ lastCmp[s].y \in ExactForms(term[s]))

\* C5 (amended): with pairwise distinct names, the matched records on which
\* the sorter's exactness test succeeds are exactly those named by one of the
\* four exact forms of the term, each form naming at most one of them: at
\* most four.
C5_AtMostFourExact ==
  \A s \in Searches : Ranking(s) =>
    LET hits == {r \in Matched(s) : IsExact(Q(s), r.t)}
    IN /\ \A r \in hits : r.t \in ExactForms(term[s])
       /\ \A r1, r2 \in hits : r1.t = r2.t => r1 = r2
       /\ Cardinality(hits) <= Cardinality(ExactForms(term[s]))
       /\ Cardinality(ExactForms(term[s])) = 4

\* the comparator was called on two exact forms of the term, names distinct
C5_Witness ==
  /\ Ranking(1) /\ lastCmp[1].made
  /\ lastCmp[1].x # lastCmp[1].y
  /\ lastCmp[1].x \in ExactForms(term[1])
  /\ lastCmp[1].y \in ExactForms(term[1])
  /\ \A r1, r2 \in store : r1.t = r2.t => r1 = r2

(***************************************************************************)
(* C6                                                                      *)
(***************************************************************************)
\* C6 (as stated): the tokens of a record are exactly libraryName,
\* typesPackageName, the globals and the modules; projectUrl is not a token,
\* so a term equal only to a record's projectUrl does not match it.
C6_TokensWithoutProjectUrl ==
  \A s \in Searches : Indexed(s) =>
    /\ \A r \in store :
         TokensOf(s, r) = {r.l, r.t} \cup Range(r.g) \cup Range(r.m)
    /\ Ranking(s) =>
         \A r \in store :
           (term[s] = r.p /\ term[s] \notin ({r.l, r.t} \cup Range(r.g) \cup Range(r.m)))
             => r \notin Matched(s)

\* C6 (amended): the tokens of a record are exactly libraryName, projectUrl,
\* typesPackageName, the globals and the modules, each field value one
\* opaque token; projectUrl is a token.
C6_TokensWithProjectUrl ==
  \A s \in Searches : Indexed(s) =>
    \A r \in store :
      /\ TokensOf(s, r) = {r.l, r.p, r.t} \cup Range(r.g) \cup Range(r.m)
      /\ r.p \in TokensOf(s, r)

\* an index was built over a record whose projectUrl is none of its other
\* fields, and a search for that projectUrl holds the record
C6_Witness ==
  /\ Ranking(1)
  /\ \E r \in Matched(1) :
       /\ term[1] = r.p
       /\ r.p \notin ({r.l, r.t} \cup Range(r.g) \cup Range(r.m))
       /\ r.p \in TokensOf(1, r)

(***************************************************************************)
(* C7                                                                      *)
(***************************************************************************)
\* C7: when no term is supplied, the missing term is reported and the run
\* stops: no engine is created or initialized and no search is issued.
C7_StopsAfterReport ==
  warned => (pc[1] = "idle" /\ promise[1] = "none" /\ index[1] = <<>>)

(***************************************************************************)
(* C8                                                                      *)
(***************************************************************************)
\* the part of the state that belongs to search s
Own(s) == <<pc[s], term[s], query[s], index[s], arr[s], i[s], j[s], lastCmp[s],
            promise[s], result[s]>>

\* C8: under every interleaving of the searches' steps, each sorter call made
\* for a search reads that search's own term, and a step of one search leaves
\* the record store and everything another search holds unchanged.
C8_SearchesIsolated ==
  [][ /\ \A s \in Searches : lastCmp'[s].made => lastCmp'[s].q = term'[s]
      /\ store' = store
      /\ \A s, o \in Searches :
           (s # o /\ pc'[s] # pc[s]) => Own(o)' = Own(o)
      /\ \A s, o \in Searches :
           (s # o /\ lastCmp'[s] # lastCmp[s]) => Own(o)' = Own(o) ]_vars

\* two searches with different terms are both between two of their sorter
\* calls: each tokenized before a comparison the other has yet to make
C8_Witness ==
  /\ term[1] # term[2]
  /\ pc[1] = "sorting" /\ pc[2] = "sorting"
  /\ lastCmp[1].made /\ lastCmp[2].made
  /\ i[1] <= Len(arr[1]) /\ i[2] <= Len(arr[2])

(***************************************************************************)
(* C10                                                                     *)
(***************************************************************************)
\* C10: the promise resolves with the ranked sequence projected element by
\* element (same length, same order, packageName = "@types/" + t, url = p);
\* it is settled when and only when the search has ended, resolved with that
\* sequence or rejected, and a rejection carries no data.
C10_ProjectedRanking ==
  \A s \in Searches :
    /\ promise[s] = "resolved" =>
         /\ Sorted(s)
         /\ Len(result[s]) = Len(arr[s])
         /\ \A k \in DOMAIN arr[s] :
              /\ result[s][k].packageName = "@types/" \o arr[s][k].t
              /\ result[s][k].url = arr[s][k].p
    /\ promise[s] = "rejected" => result[s] = <<>>
    /\ (pc[s] = "settled") <=> (promise[s] \in {"resolved", "rejected"})
    /\ (pc[s] = "idle") <=> (promise[s] = "none")

\* a search resolved with two or more projected entries
C10_Witness ==
  /\ promise[1] = "resolved"
  /\ Len(result[1]) >= 2
  /\ result[1][1].packageName = "@types/" \o arr[1][1].t
  /\ mainpc = "done" /\ printed = result[1]

====
